---- MODULE Spec2Model ----
(***************************************************************************)
(* user-api: a CRUD HTTP service for one "User" resource, layered as       *)
(* handler -> use case -> repository over a MongoDB collection.            *)
(*                                                                         *)
(* Strings are sequences of one-character strings, so that                 *)
(* strings.Contains, ObjectIDFromHex and ObjectID.Hex are computed, not    *)
(* assumed.  An ObjectID is a sequence of OidLen bytes.                    *)
(***************************************************************************)
EXTENDS Integers, Sequences, FiniteSets, Bags, TLC

VARIABLES collection, issued, inflight, last, main

vars == <<collection, issued, inflight, last, main>>

(***************************************************************************)
(* Bounds of the model.                                                    *)
(***************************************************************************)
\* number of ObjectIDs the store can hand out (number of successful creates)
MaxUsers == 2
\* number of PUT requests that may wait between their GetByID and their
\* Update while other requests run
MaxInflight == 1

(***************************************************************************)
(* Program constants.                                                      *)
(***************************************************************************)
OidLen == 12
StatusOK == 200
StatusCreated == 201
StatusNoContent == 204
StatusBadRequest == 400
StatusNotFound == 404
StatusInternalServerError == 500

Nil == "nil"
ErrInvalidEmail == "invalid email"
ErrNotFound == "user not found"
\* any other error of the driver: deadline exceeded, connection lost, decode
ErrStore == "store error"

(***************************************************************************)
(* Hexadecimal encoding of ObjectIDs.                                      *)
(***************************************************************************)
LowerDigits ==
  <<"0","1","2","3","4","5","6","7","8","9","a","b","c","d","e","f">>

UpperDigits ==
  <<"0","1","2","3","4","5","6","7","8","9","A","B","C","D","E","F">>

\* encoding/hex.fromHexChar: both cases are accepted; -1 for any other char
HexValue ==
  [c \in {LowerDigits[v] : v \in 1..16} \cup {UpperDigits[v] : v \in 1..16} |->
     IF \E v \in 1..16 : LowerDigits[v] = c
       THEN (CHOOSE v \in 1..16 : LowerDigits[v] = c) - 1
       ELSE (CHOOSE v \in 1..16 : UpperDigits[v] = c) - 1]

FromHexChar(c) == IF c \in DOMAIN HexValue THEN HexValue[c] ELSE -1

\* hex.Encode as primitive.ObjectID.Hex uses it: two lowercase digits per byte
EncodeHex(oid) ==
  [i \in 1..(2 * OidLen) |->
     IF i % 2 = 1 THEN LowerDigits[(oid[(i + 1) \div 2] \div 16) + 1]
                  ELSE LowerDigits[(oid[i \div 2] % 16) + 1]]

\* the length test and hex.Decode of primitive.ObjectIDFromHex: length
\* 2*OidLen and hex digits only
DecodeHex(s) ==
  IF Len(s) # 2 * OidLen \/ \E i \in 1..Len(s) : FromHexChar(s[i]) = -1
    THEN [err |-> TRUE, oid |-> <<>>]
    ELSE [err |-> FALSE,
          oid |-> [k \in 1..OidLen |->
                     FromHexChar(s[2 * k - 1]) * 16 + FromHexChar(s[2 * k])]]

\* strings.Contains(email, "@")
ContainsAt(email) == \E i \in 1..Len(email) : email[i] = "@"

(***************************************************************************)
(* Input domains.                                                          *)
(***************************************************************************)
Oid(k) == [i \in 1..OidLen |-> (k * 171 + i * 29) % 256]

\* the identifiers the driver generates, in the order it generates them
OidSpace == {Oid(k) : k \in 1..MaxUsers}

\* primitive.NewObjectID for a document inserted without _id: a counter makes
\* every identifier of the process new
NewObjectID(used) == Oid(Cardinality(used) + 1)

ToUpper(s) ==
  [i \in 1..Len(s) |->
     IF \E v \in 11..16 : LowerDigits[v] = s[i]
       THEN UpperDigits[CHOOSE v \in 11..16 : LowerDigits[v] = s[i]]
       ELSE s[i]]

ShortId == <<"a","b","c">>
NonHexId == [i \in 1..(2 * OidLen) |-> IF i = 7 THEN "g" ELSE "1"]
UnassignedId == EncodeHex(Oid(0))

Ids == {EncodeHex(o) : o \in OidSpace}
         \cup {ToUpper(EncodeHex(Oid(1))), ShortId, NonHexId, UnassignedId}

\* primitive.ObjectID.Hex, computed once for each identifier of the model
HexTable == [o \in {Oid(k) : k \in 0..(MaxUsers + 1)} |-> EncodeHex(o)]

Hex(oid) == HexTable[oid]

\* primitive.ObjectIDFromHex, computed once for each id of a request
ObjectIDTable == [s \in Ids \cup {<<>>} |-> DecodeHex(s)]

ObjectIDFromHex(s) == ObjectIDTable[s]

Names == {<<>>, <<"J">>}

Emails == {<<>>, <<"j","@","x">>, <<"n","@","e">>, <<"j","x">>}

\* what json.Decode yields: an error, or the two fields (absent = empty)
BadBody == [ok |-> FALSE, Name |-> <<>>, Email |-> <<>>]
Bodies == {BadBody} \cup [ok : {TRUE}, Name : Names, Email : Emails]

\* outcome of one call to the driver: it answers, or it returns an error and
\* has applied nothing
Outcomes == {"ok", "fail"}

\* a *domain.User is a sequence of at most one record; nil is the empty one
NilUser == <<>>

(***************************************************************************)
(* Repository: UserMongoRepository over `collection`, a set of userDoc.    *)
(***************************************************************************)
DocsWithID(coll, oid) == {d \in coll : d.ID = oid}

\* Create that forgets to hand the generated identifier back
CreateNoId(coll, user, outcome, newOid) ==
  IF outcome = "fail"
    THEN [err |-> ErrStore, user |-> user, coll |-> coll]
    ELSE [err |-> Nil,
          user |-> user,
          coll |-> coll \cup
                   {[ID |-> newOid, Name |-> user.Name, Email |-> user.Email]}]

\* Create that assigns the identifier before it knows the insert succeeded
CreateIdFirst(coll, user, outcome, newOid) ==
  IF outcome = "fail"
    THEN [err |-> ErrStore,
          user |-> [user EXCEPT !.ID = Hex(newOid)],
          coll |-> coll]
    ELSE [err |-> Nil,
          user |-> [user EXCEPT !.ID = Hex(newOid)],
          coll |-> coll \cup
                   {[ID |-> newOid, Name |-> user.Name, Email |-> user.Email]}]

\* UserMongoRepository.Create: InsertOne, then user.ID = InsertedID.Hex()
Create(coll, user, outcome, newOid) ==
  IF outcome = "fail"
    THEN [err |-> ErrStore, user |-> user, coll |-> coll]
    ELSE [err |-> Nil,
          user |-> [user EXCEPT !.ID = Hex(newOid)],
          coll |-> coll \cup
                   {[ID |-> newOid, Name |-> user.Name, Email |-> user.Email]}]

\* GetByID of a repository that signals an unknown id by a nil user and a nil
\* error, as the contract of domain.UserRepository allows
GetByIDNil(coll, id, outcome) ==
  LET r == ObjectIDFromHex(id) IN
  IF r.err THEN [err |-> Nil, user |-> NilUser]
  ELSE IF outcome = "fail" THEN [err |-> ErrStore, user |-> NilUser]
  ELSE IF DocsWithID(coll, r.oid) = {} THEN [err |-> Nil, user |-> NilUser]
  ELSE LET doc == CHOOSE d \in DocsWithID(coll, r.oid) : TRUE IN
       [err |-> Nil,
        user |-> <<[ID |-> Hex(doc.ID), Name |-> doc.Name,
                    Email |-> doc.Email]>>]

\* GetByID that passes the parse error of a malformed id on
GetByIDParseError(coll, id, outcome) ==
  LET r == ObjectIDFromHex(id) IN
  IF r.err THEN [err |-> ErrStore, user |-> NilUser]
  ELSE IF outcome = "fail" THEN [err |-> ErrStore, user |-> NilUser]
  ELSE IF DocsWithID(coll, r.oid) = {} THEN [err |-> ErrNotFound, user |-> NilUser]
  ELSE LET doc == CHOOSE d \in DocsWithID(coll, r.oid) : TRUE IN
       [err |-> Nil,
        user |-> <<[ID |-> Hex(doc.ID), Name |-> doc.Name,
                    Email |-> doc.Email]>>]

\* UserMongoRepository.GetByID
GetByID(coll, id, outcome) ==
  LET r == ObjectIDFromHex(id) IN
  IF r.err THEN [err |-> ErrNotFound, user |-> NilUser]
  ELSE IF outcome = "fail" THEN [err |-> ErrStore, user |-> NilUser]
  ELSE IF DocsWithID(coll, r.oid) = {} THEN [err |-> ErrNotFound, user |-> NilUser]
  ELSE LET doc == CHOOSE d \in DocsWithID(coll, r.oid) : TRUE IN
       [err |-> Nil,
        user |-> <<[ID |-> Hex(doc.ID), Name |-> doc.Name,
                    Email |-> doc.Email]>>]

\* Update whose $set leaves the email out
UpdateNameOnly(coll, user, outcome) ==
  LET r == ObjectIDFromHex(user.ID) IN
  IF r.err THEN [err |-> ErrNotFound, coll |-> coll]
  ELSE IF outcome = "fail" THEN [err |-> ErrStore, coll |-> coll]
  ELSE IF Cardinality(DocsWithID(coll, r.oid)) = 0
    THEN [err |-> ErrNotFound, coll |-> coll]
  ELSE [err |-> Nil,
        coll |-> {IF d.ID = r.oid THEN [d EXCEPT !.Name = user.Name]
                                  ELSE d : d \in coll}]

\* Update that tests ModifiedCount: a write that changes nothing is NotFound
UpdateModifiedCount(coll, user, outcome) ==
  LET r == ObjectIDFromHex(user.ID) IN
  IF r.err THEN [err |-> ErrNotFound, coll |-> coll]
  ELSE IF outcome = "fail" THEN [err |-> ErrStore, coll |-> coll]
  ELSE IF Cardinality({d \in DocsWithID(coll, r.oid) :
                         d.Name # user.Name \/ d.Email # user.Email}) = 0
    THEN [err |-> ErrNotFound, coll |-> coll]
  ELSE [err |-> Nil,
        coll |-> {IF d.ID = r.oid
                    THEN [d EXCEPT !.Name = user.Name, !.Email = user.Email]
                    ELSE d : d \in coll}]

\* Update whose error comes after the write was applied
UpdateWriteThenFail(coll, user, outcome) ==
  LET r == ObjectIDFromHex(user.ID) IN
  IF r.err THEN [err |-> ErrNotFound, coll |-> coll]
  ELSE IF Cardinality(DocsWithID(coll, r.oid)) = 0
    THEN [err |-> IF outcome = "fail" THEN ErrStore ELSE ErrNotFound,
          coll |-> coll]
  ELSE [err |-> IF outcome = "fail" THEN ErrStore ELSE Nil,
        coll |-> {IF d.ID = r.oid
                    THEN [d EXCEPT !.Name = user.Name, !.Email = user.Email]
                    ELSE d : d \in coll}]

\* Update with the upsert option: a write to an id without document inserts
UpdateUpsert(coll, user, outcome) ==
  LET r == ObjectIDFromHex(user.ID) IN
  IF r.err THEN [err |-> ErrNotFound, coll |-> coll]
  ELSE IF outcome = "fail" THEN [err |-> ErrStore, coll |-> coll]
  ELSE [err |-> Nil,
        coll |-> {d \in coll : d.ID # r.oid} \cup
                 {[ID |-> r.oid, Name |-> user.Name, Email |-> user.Email]}]

\* UserMongoRepository.Update: UpdateByID with $set of name and email
Update(coll, user, outcome) ==
  LET r == ObjectIDFromHex(user.ID) IN
  IF r.err THEN [err |-> ErrNotFound, coll |-> coll]
  ELSE IF outcome = "fail" THEN [err |-> ErrStore, coll |-> coll]
  ELSE IF Cardinality(DocsWithID(coll, r.oid)) = 0
    THEN [err |-> ErrNotFound, coll |-> coll]
  ELSE [err |-> Nil,
        coll |-> {IF d.ID = r.oid
                    THEN [d EXCEPT !.Name = user.Name, !.Email = user.Email]
                    ELSE d : d \in coll}]

\* Delete that does not look at DeletedCount
DeleteIgnoreCount(coll, id, outcome) ==
  LET r == ObjectIDFromHex(id) IN
  IF r.err THEN [err |-> ErrNotFound, coll |-> coll]
  ELSE IF outcome = "fail" THEN [err |-> ErrStore, coll |-> coll]
  ELSE [err |-> Nil, coll |-> coll \ DocsWithID(coll, r.oid)]

\* Delete whose filter does not name the _id: the first matching document of
\* any id goes
DeleteAnyDocument(coll, id, outcome) ==
  LET r == ObjectIDFromHex(id) IN
  IF r.err THEN [err |-> ErrNotFound, coll |-> coll]
  ELSE IF outcome = "fail" THEN [err |-> ErrStore, coll |-> coll]
  ELSE IF coll = {}
    THEN [err |-> ErrNotFound, coll |-> coll]
  ELSE [err |-> Nil, coll |-> coll \ {CHOOSE d \in coll : TRUE}]

\* UserMongoRepository.Delete: DeleteOne by _id
Delete(coll, id, outcome) ==
  LET r == ObjectIDFromHex(id) IN
  IF r.err THEN [err |-> ErrNotFound, coll |-> coll]
  ELSE IF outcome = "fail" THEN [err |-> ErrStore, coll |-> coll]
  ELSE IF Cardinality(DocsWithID(coll, r.oid)) = 0
    THEN [err |-> ErrNotFound, coll |-> coll]
  ELSE [err |-> Nil, coll |-> coll \ DocsWithID(coll, r.oid)]

\* the orders in which a cursor may deliver the documents of coll
Orders(coll) ==
  {f \in [1..Cardinality(coll) -> coll] :
     \A i, j \in 1..Cardinality(coll) : i # j => f[i] # f[j]}

\* List that appends the address of one variable shared by all iterations
ListAliased(coll, outcome, order, at) ==
  IF outcome = "fail" THEN [err |-> ErrStore, users |-> <<>>]
  ELSE [err |-> Nil,
        users |-> [i \in 1..at |->
                     [ID |-> Hex(order[at].ID),
                      Name |-> order[at].Name,
                      Email |-> order[at].Email]]]

\* List that returns what it had appended when the cursor failed
ListPartial(coll, outcome, order, at) ==
  LET users == [i \in 1..at |->
                  [ID |-> Hex(order[i].ID), Name |-> order[i].Name,
                   Email |-> order[i].Email]]
  IN IF outcome = "fail" THEN [err |-> ErrStore, users |-> users]
                         ELSE [err |-> Nil, users |-> users]

\* UserMongoRepository.List: the cursor delivers the documents in `order`
\* and `at` of them have been appended when the loop ends: all of them, or
\* those before the failure of Find (none), of a Decode or of the cursor.
\* `var users []*domain.User` stays nil (the empty sequence) when nothing was
\* appended, and every error returns nil in the place of the slice
List(coll, outcome, order, at) ==
  LET users == [i \in 1..at |->
                  [ID |-> Hex(order[i].ID), Name |-> order[i].Name,
                   Email |-> order[i].Email]]
  IN IF outcome = "fail" THEN [err |-> ErrStore, users |-> <<>>]
                         ELSE [err |-> Nil, users |-> users]

(***************************************************************************)
(* Use case: userUseCase.  Each operation also yields `calls`, the calls   *)
(* it made to the repository, in order.                                    *)
(***************************************************************************)
\* one call of a method of domain.UserRepository: its argument, the error and
\* the value it returned
Call(op, arg, err, res) == [op |-> op, arg |-> arg, err |-> err, res |-> res]

\* CreateUser that checks only that an email was given
CreateUserAnyEmail(coll, name, email, outcome, newOid) ==
  IF email = <<>>
    THEN [err |-> ErrInvalidEmail, user |-> NilUser, coll |-> coll,
          calls |-> <<>>]
    ELSE LET user == [ID |-> <<>>, Name |-> name, Email |-> email]
             r == Create(coll, user, outcome, newOid)
             calls == <<Call("Create", user, r.err, <<r.user>>)>>
         IN IF r.err # Nil
              THEN [err |-> r.err, user |-> NilUser, coll |-> r.coll,
                    calls |-> calls]
              ELSE [err |-> Nil, user |-> <<r.user>>, coll |-> r.coll,
                    calls |-> calls]

\* CreateUser that tries the insert a second time when the first one failed
CreateUserRetry(coll, name, email, outcome, newOid) ==
  IF ~ContainsAt(email)
    THEN [err |-> ErrInvalidEmail, user |-> NilUser, coll |-> coll,
          calls |-> <<>>]
    ELSE LET user == [ID |-> <<>>, Name |-> name, Email |-> email]
             r1 == Create(coll, user, outcome, newOid)
             r == IF r1.err # Nil THEN Create(r1.coll, user, outcome, newOid)
                                 ELSE r1
             calls == IF r1.err # Nil
                        THEN <<Call("Create", user, r1.err, <<r1.user>>),
                               Call("Create", user, r.err, <<r.user>>)>>
                        ELSE <<Call("Create", user, r.err, <<r.user>>)>>
         IN IF r.err # Nil
              THEN [err |-> r.err, user |-> NilUser, coll |-> r.coll,
                    calls |-> calls]
              ELSE [err |-> Nil, user |-> <<r.user>>, coll |-> r.coll,
                    calls |-> calls]

\* CreateUser that inserts first and validates the email afterwards
CreateUserInsertFirst(coll, name, email, outcome, newOid) ==
  LET user == [ID |-> <<>>, Name |-> name, Email |-> email]
      r == Create(coll, user, outcome, newOid)
      calls == <<Call("Create", user, r.err, <<r.user>>)>>
  IN IF r.err # Nil
       THEN [err |-> r.err, user |-> NilUser, coll |-> r.coll,
             calls |-> calls]
     ELSE IF ~ContainsAt(email)
       THEN [err |-> ErrInvalidEmail, user |-> NilUser, coll |-> r.coll,
             calls |-> calls]
     ELSE [err |-> Nil, user |-> <<r.user>>, coll |-> r.coll,
           calls |-> calls]

\* CreateUser that refuses an email some stored record already has
CreateUserUniqueEmail(coll, name, email, outcome, newOid) ==
  IF ~ContainsAt(email) \/ (\E d \in coll : d.Email = email)
    THEN [err |-> ErrInvalidEmail, user |-> NilUser, coll |-> coll,
          calls |-> <<>>]
    ELSE LET user == [ID |-> <<>>, Name |-> name, Email |-> email]
             r == Create(coll, user, outcome, newOid)
             calls == <<Call("Create", user, r.err, <<r.user>>)>>
         IN IF r.err # Nil
              THEN [err |-> r.err, user |-> NilUser, coll |-> r.coll,
                    calls |-> calls]
              ELSE [err |-> Nil, user |-> <<r.user>>, coll |-> r.coll,
                    calls |-> calls]

\* userUseCase.CreateUser
CreateUser(coll, name, email, outcome, newOid) ==
  IF ~ContainsAt(email)
    THEN [err |-> ErrInvalidEmail, user |-> NilUser, coll |-> coll,
          calls |-> <<>>]
    ELSE LET user == [ID |-> <<>>, Name |-> name, Email |-> email]
             r == Create(coll, user, outcome, newOid)
             calls == <<Call("Create", user, r.err, <<r.user>>)>>
         IN IF r.err # Nil
              THEN [err |-> r.err, user |-> NilUser, coll |-> r.coll,
                    calls |-> calls]
              ELSE [err |-> Nil, user |-> <<r.user>>, coll |-> r.coll,
                    calls |-> calls]

\* userUseCase.GetUser, given what uc.repo.GetByID(id) returned
GetUserWith(r, id) ==
  [err |-> r.err, user |-> r.user,
   calls |-> <<Call("GetByID", id, r.err, r.user)>>]

\* userUseCase.GetUser over UserMongoRepository
GetUser(coll, id, outcome) == GetUserWith(GetByID(coll, id, outcome), id)

\* userUseCase.ListUsers
ListUsers(coll, outcome, order, at) ==
  LET r == List(coll, outcome, order, at) IN
  [err |-> r.err, users |-> r.users,
   calls |-> <<Call("List", <<>>, r.err, r.users)>>]

\* UpdateUser that takes a supplied email over without validating it
UpdateUserFetchNoCheck(coll, id, name, email, outcome) ==
  LET g == GetByID(coll, id, outcome)
      calls == <<Call("GetByID", id, g.err, g.user)>>
  IN
  IF g.err # Nil THEN [err |-> g.err, user |-> NilUser, calls |-> calls]
  ELSE IF g.user = NilUser
    THEN [err |-> ErrNotFound, user |-> NilUser, calls |-> calls]
  ELSE LET u1 == IF name # <<>> THEN [g.user[1] EXCEPT !.Name = name]
                                ELSE g.user[1]
       IN IF email # <<>>
            THEN [err |-> Nil, user |-> <<[u1 EXCEPT !.Email = email]>>,
                  calls |-> calls]
            ELSE [err |-> Nil, user |-> <<u1>>, calls |-> calls]

\* UpdateUser up to the call of repo.Update, given what uc.repo.GetByID(id)
\* returned: nil check, merge of the non-empty fields, validation of a
\* supplied email
UpdateUserFetchWith(g, id, name, email) ==
  LET calls == <<Call("GetByID", id, g.err, g.user)>> IN
  IF g.err # Nil THEN [err |-> g.err, user |-> NilUser, calls |-> calls]
  ELSE IF g.user = NilUser
    THEN [err |-> ErrNotFound, user |-> NilUser, calls |-> calls]
  ELSE LET u1 == IF name # <<>> THEN [g.user[1] EXCEPT !.Name = name]
                                ELSE g.user[1]
       IN IF email # <<>>
            THEN IF ~ContainsAt(email)
                   THEN [err |-> ErrInvalidEmail, user |-> NilUser,
                         calls |-> calls]
                   ELSE [err |-> Nil, user |-> <<[u1 EXCEPT !.Email = email]>>,
                         calls |-> calls]
            ELSE [err |-> Nil, user |-> <<u1>>, calls |-> calls]

\* userUseCase.UpdateUser over UserMongoRepository, up to the call of
\* repo.Update
UpdateUserFetch(coll, id, name, email, outcome) ==
  UpdateUserFetchWith(GetByID(coll, id, outcome), id, name, email)

\* UpdateUser from the call of repo.Update on
UpdateUserPersist(coll, user, outcome) ==
  LET r == Update(coll, user, outcome)
      calls == <<Call("Update", user, r.err, <<>>)>>
  IN
  IF r.err # Nil
    THEN [err |-> r.err, user |-> NilUser, coll |-> r.coll, calls |-> calls]
    ELSE [err |-> Nil, user |-> <<user>>, coll |-> r.coll, calls |-> calls]

\* DeleteUser that reports success whatever the repository returned
DeleteUserSwallow(coll, id, outcome) ==
  LET r == Delete(coll, id, outcome) IN
  [err |-> Nil, coll |-> r.coll,
   calls |-> <<Call("Delete", id, r.err, <<>>)>>]

\* DeleteUser that looks the record up before it deletes it
DeleteUserCheckFirst(coll, id, outcome) ==
  LET g == GetByID(coll, id, outcome)
      r == Delete(coll, id, outcome)
  IN IF g.err # Nil
       THEN [err |-> g.err, coll |-> coll,
             calls |-> <<Call("GetByID", id, g.err, g.user)>>]
       ELSE [err |-> r.err, coll |-> r.coll,
             calls |-> <<Call("GetByID", id, g.err, g.user),
                         Call("Delete", id, r.err, <<>>)>>]

\* userUseCase.DeleteUser
DeleteUser(coll, id, outcome) ==
  LET r == Delete(coll, id, outcome) IN
  [err |-> r.err, coll |-> r.coll,
   calls |-> <<Call("Delete", id, r.err, <<>>)>>]

(***************************************************************************)
(* HTTP handlers: status and body written for an outcome of the use case.  *)
(***************************************************************************)
writeError(status, msg) ==
  [status |-> status, json |-> "error", error |-> msg, users |-> <<>>]

\* json.Encode of a *User, of a []*User (nil encodes as null), or nothing
writeJSON(status, kind, users) ==
  [status |-> status,
   json |-> IF kind = "array" /\ users = <<>> THEN "null" ELSE kind,
   error |-> "", users |-> users]

createUserResponse(decoded, err, user) ==
  IF ~decoded THEN writeError(StatusBadRequest, "Invalid request body")
  ELSE IF err # Nil
    THEN IF err = ErrInvalidEmail
           THEN writeError(StatusBadRequest, err)
           ELSE writeError(StatusInternalServerError, "Failed to create user")
    ELSE writeJSON(StatusCreated, "object", user)

listUsersResponse(err, users) ==
  IF err # Nil
    THEN writeError(StatusInternalServerError, "Failed to list users")
    ELSE writeJSON(StatusOK, "array", users)

\* getUser without the NotFound branch
getUserResponseNo404(err, user) ==
  IF err # Nil
    THEN writeError(StatusInternalServerError, "Failed to get user")
    ELSE writeJSON(StatusOK, IF user = NilUser THEN "null" ELSE "object", user)

getUserResponse(err, user) ==
  IF err # Nil
    THEN IF err = ErrNotFound
           THEN writeError(StatusNotFound, "User not found")
           ELSE writeError(StatusInternalServerError, "Failed to get user")
    ELSE writeJSON(StatusOK, IF user = NilUser THEN "null" ELSE "object", user)

updateUserResponse(decoded, err, user) ==
  IF ~decoded THEN writeError(StatusBadRequest, "Invalid request body")
  ELSE IF err # Nil
    THEN IF err = ErrNotFound
           THEN writeError(StatusNotFound, "User not found")
           ELSE IF err = ErrInvalidEmail
             THEN writeError(StatusBadRequest, err)
             ELSE writeError(StatusInternalServerError,
                             "Failed to update user")
    ELSE writeJSON(StatusOK, "object", user)

deleteUserResponse(err) ==
  IF err # Nil
    THEN IF err = ErrNotFound
           THEN writeError(StatusNotFound, "User not found")
           ELSE writeError(StatusInternalServerError, "Failed to delete user")
    ELSE [status |-> StatusNoContent, json |-> "empty", error |-> "",
          users |-> <<>>]

(***************************************************************************)
(* State.                                                                  *)
(*   collection  the documents of the "users" collection                   *)
(*   issued      the ObjectIDs generated so far                            *)
(*   inflight    the PUT requests between their GetByID and their Update:  *)
(*               the merged user each of them is about to write            *)
(*   last        the step taken last: the request, the result of the use   *)
(*               case and the response written; `whole` tells that the     *)
(*               request ran from its start with no step of another        *)
(*               request in between, so that its input is known; `calls`   *)
(*               are the calls the request has made to the repository      *)
(***************************************************************************)
NoInput == <<>>

Event(op, whole, id, name, email, decoded, called, calls, err, user, users, resp) ==
  [op |-> op, whole |-> whole, id |-> id, name |-> name, email |-> email,
   decoded |-> decoded, called |-> called, calls |-> calls, err |-> err,
   user |-> user, users |-> users, resp |-> resp]

NoResponse == [status |-> 0, json |-> "none", error |-> "", users |-> <<>>]

Idle ==
  Event("idle", FALSE, NoInput, NoInput, NoInput, FALSE, FALSE, <<>>, Nil,
        NilUser, <<>>, NoResponse)

\* main: where the process is, the state of the MongoDB client ("none",
\* "dialed" once mongo.Connect has succeeded, "ready" once NewClient has
\* returned it, "disconnected") and the deferred calls still to run when
\* main returns
Main(pc, client, deferred) ==
  [pc |-> pc, client |-> client, deferred |-> deferred]

\* main blocked in http.ListenAndServe: the client connected and pinged, its
\* Disconnect deferred, the routes registered
Listening == Main("serving", "ready", <<"Disconnect">>)

\* requests are handled while ListenAndServe runs
Serving == main.pc = "serving"

Init ==
  /\ collection = {}
  /\ issued = {}
  /\ inflight = EmptyBag
  /\ last = Idle
  /\ main = Listening

\* a request whose id parses reaches the driver
ReachesStore(id) == ~ObjectIDFromHex(id).err

\* POST /users
createUser ==
  /\ Serving
  /\ last.op = "idle"
  /\ \E body \in Bodies, outcome \in Outcomes :
       LET decoded == body.ok
           name == IF decoded THEN body.Name ELSE NoInput
           email == IF decoded THEN body.Email ELSE NoInput
           newOid == NewObjectID(issued)
           r == IF decoded
                  THEN CreateUser(collection, name, email, outcome, newOid)
                  ELSE [err |-> Nil, user |-> NilUser, coll |-> collection,
                        calls |-> <<>>]
       IN /\ outcome = "fail" => decoded /\ ContainsAt(email)
          /\ r.coll # collection => newOid \in OidSpace
          /\ collection' = r.coll
          /\ issued' = IF r.coll # collection THEN issued \cup {newOid}
                                              ELSE issued
          /\ last' = Event("createUser", TRUE, NoInput, name, email, decoded,
                           decoded, r.calls, r.err, r.user, <<>>,
                           createUserResponse(decoded, r.err, r.user))
          /\ UNCHANGED <<inflight, main>>

\* GET /users
listUsers ==
  /\ Serving
  /\ last.op = "idle"
  /\ \E outcome \in Outcomes, order \in Orders(collection),
        at \in 0..Cardinality(collection) :
       LET r == ListUsers(collection, outcome, order, at) IN
       /\ outcome = "ok" => at = Len(order)
       /\ last' = Event("listUsers", TRUE, NoInput, NoInput, NoInput, TRUE,
                        TRUE, r.calls, r.err, NilUser, r.users,
                        listUsersResponse(r.err, r.users))
       /\ UNCHANGED <<collection, issued, inflight, main>>

\* UserHandler.getUser, given what h.uc.GetUser(id) returned
getUserServe(id, outcome, r) ==
  /\ outcome = "fail" => ReachesStore(id)
  /\ last' = Event("getUser", TRUE, id, NoInput, NoInput, TRUE, TRUE,
                   r.calls, r.err, r.user, <<>>,
                   getUserResponse(r.err, r.user))
  /\ UNCHANGED <<collection, issued, inflight, main>>

\* GET /users/{id}
getUser ==
  /\ Serving
  /\ last.op = "idle"
  /\ \E id \in Ids, outcome \in Outcomes :
       getUserServe(id, outcome, GetUser(collection, id, outcome))

\* GET /users/{id} over a repository that answers an unknown id with nil
getUserNil ==
  /\ Serving
  /\ last.op = "idle"
  /\ \E id \in Ids, outcome \in Outcomes :
       getUserServe(id, outcome,
                    GetUserWith(GetByIDNil(collection, id, outcome), id))

\* what is remembered of a request in flight: the record it is about to
\* write and, when keep is set, the id, name and email it was called with
Waiting(keep, user, id, name, email) ==
  IF keep THEN [user |-> user, id |-> id, name |-> name, email |-> email]
          ELSE user

\* updateUser that looks at the decoding error only after it has called the
\* use case
updateUserFetchServeLateDecode(id, body, outcome, found, keep) ==
  LET decoded == body.ok
      name == IF decoded THEN body.Name ELSE NoInput
      email == IF decoded THEN body.Email ELSE NoInput
      r == found
  IN /\ outcome = "fail" => decoded /\ ReachesStore(id)
     /\ IF decoded /\ r.err = Nil
          THEN /\ BagCardinality(inflight) <= MaxInflight
               /\ inflight' = inflight (+)
                    SetToBag({Waiting(keep, r.user[1], id, name, email)})
               /\ last' = Event("fetch", TRUE, id, name, email, TRUE, TRUE,
                                r.calls, Nil, r.user, <<>>, NoResponse)
          ELSE /\ inflight' = inflight
               /\ last' = Event("updateUser", TRUE, id, name, email, decoded,
                                TRUE, r.calls, r.err, r.user, <<>>,
                                updateUserResponse(decoded, r.err, r.user))
     /\ UNCHANGED <<collection, issued, main>>

\* PUT /users/{id}, up to the call of repo.Update; a request that got that
\* far is in flight, any other is answered here
updateUserFetchServe(id, body, outcome, found, keep) ==
  LET decoded == body.ok
      name == IF decoded THEN body.Name ELSE NoInput
      email == IF decoded THEN body.Email ELSE NoInput
      r == IF decoded
             THEN found
             ELSE [err |-> Nil, user |-> NilUser, calls |-> <<>>]
  IN /\ outcome = "fail" => decoded /\ ReachesStore(id)
     /\ IF decoded /\ r.err = Nil
          THEN /\ BagCardinality(inflight) <= MaxInflight
               /\ inflight' = inflight (+)
                    SetToBag({Waiting(keep, r.user[1], id, name, email)})
               /\ last' = Event("fetch", TRUE, id, name, email, TRUE, TRUE,
                                r.calls, Nil, r.user, <<>>, NoResponse)
          ELSE /\ inflight' = inflight
               /\ last' = Event("updateUser", TRUE, id, name, email, decoded,
                                decoded, r.calls, r.err, r.user, <<>>,
                                updateUserResponse(decoded, r.err, r.user))
     /\ UNCHANGED <<collection, issued, main>>

\* PUT /users/{id} up to the call of repo.Update
updateUserFetch ==
  /\ Serving
  /\ last.op = "idle"
  /\ \E id \in Ids, body \in Bodies, outcome \in Outcomes :
       updateUserFetchServe(id, body, outcome,
         UpdateUserFetch(collection, id, body.Name, body.Email, outcome),
         FALSE)

\* PUT /users/{id} up to the call of repo.Update, over a repository that
\* answers an unknown id with nil
updateUserFetchNil ==
  /\ Serving
  /\ last.op = "idle"
  /\ \E id \in Ids, body \in Bodies, outcome \in Outcomes :
       updateUserFetchServe(id, body, outcome,
         UpdateUserFetchWith(GetByIDNil(collection, id, outcome), id,
                             body.Name, body.Email),
         FALSE)

\* PUT /users/{id} up to the call of repo.Update, the inputs of the request
\* kept while it is in flight
updateUserFetchTracked ==
  /\ Serving
  /\ last.op = "idle"
  /\ \E id \in Ids, body \in Bodies, outcome \in Outcomes :
       updateUserFetchServe(id, body, outcome,
         UpdateUserFetch(collection, id, body.Name, body.Email, outcome),
         TRUE)

\* PUT /users/{id}, from the call of repo.Update to the response, for the
\* in-flight request that is about to write user and has made the calls
\* `before`
updateUserPersist(user, whole, id, name, email, before, outcome, keep) ==
  LET r == UpdateUserPersist(collection, user, outcome) IN
  /\ collection' = r.coll
  /\ inflight' = inflight (-)
                   SetToBag({Waiting(keep, user, id, name, email)})
  /\ last' = Event("updateUser", whole, id, name, email, TRUE, TRUE,
                   before \o r.calls, r.err, r.user, <<>>,
                   updateUserResponse(TRUE, r.err, r.user))
  /\ UNCHANGED <<issued, main>>

\* the request that has just fetched goes on to its Update before any other
\* request takes a step
proceed ==
  /\ Serving
  /\ last.op = "fetch"
  /\ \E outcome \in Outcomes :
       updateUserPersist(last.user[1], TRUE, last.id, last.name, last.email,
                         last.calls, outcome, FALSE)

\* an in-flight request goes on to its Update after other requests ran
resume ==
  /\ Serving
  /\ last.op = "idle"
  /\ \E user \in BagToSet(inflight), outcome \in Outcomes :
       updateUserPersist(user, FALSE, NoInput, NoInput, NoInput, <<>>,
                         outcome, FALSE)

\* proceed, for a request whose inputs are kept
proceedTracked ==
  /\ Serving
  /\ last.op = "fetch"
  /\ \E outcome \in Outcomes :
       updateUserPersist(last.user[1], TRUE, last.id, last.name, last.email,
                         last.calls, outcome, TRUE)

\* resume, for a request whose inputs are kept: the event of its Update
\* carries them
resumeTracked ==
  /\ Serving
  /\ last.op = "idle"
  /\ \E w \in BagToSet(inflight), outcome \in Outcomes :
       updateUserPersist(w.user, FALSE, w.id, w.name, w.email, <<>>,
                         outcome, TRUE)

\* DELETE /users/{id}
deleteUser ==
  /\ Serving
  /\ last.op = "idle"
  /\ \E id \in Ids, outcome \in Outcomes :
       LET r == DeleteUser(collection, id, outcome) IN
       /\ outcome = "fail" => ReachesStore(id)
       /\ collection' = r.coll
       /\ last' = Event("deleteUser", TRUE, id, NoInput, NoInput, TRUE, TRUE,
                        r.calls, r.err, NilUser, <<>>,
                        deleteUserResponse(r.err))
       /\ UNCHANGED <<issued, inflight, main>>

\* the handler returns, or the request waits while other requests run
yield ==
  /\ Serving
  /\ last.op # "idle"
  /\ last.op = "fetch" => BagCardinality(inflight) <= MaxInflight
  /\ last' = Idle
  /\ UNCHANGED <<collection, issued, inflight, main>>

\* the requests of different clients interleave at the calls to the store; the
\* server's steps are taken one at a time
Next ==
  \/ createUser
  \/ listUsers
  \/ getUser
  \/ updateUserFetch
  \/ proceed
  \/ resume
  \/ deleteUser
  \/ yield

Spec == Init /\ [][Next]_vars

\* the same service wired to a repository whose GetByID answers an unknown id
\* with a nil user and a nil error
NextNil ==
  \/ createUser
  \/ listUsers
  \/ getUserNil
  \/ updateUserFetchNil
  \/ proceed
  \/ resume
  \/ deleteUser
  \/ yield

SpecNilRepo == Init /\ [][NextNil]_vars

\* the service with the inputs of every request in flight kept until the
\* request has called Update
NextTracked ==
  \/ createUser
  \/ listUsers
  \/ getUser
  \/ updateUserFetchTracked
  \/ proceedTracked
  \/ resumeTracked
  \/ deleteUser
  \/ yield

SpecTracked == Init /\ [][NextTracked]_vars

(***************************************************************************)
(* The process: func main from its first statement.                        *)
(***************************************************************************)
\* log.Fatalf: the message is written and os.Exit(1) ends the process at
\* once; deferred calls are not run
Fatalf(m) == [m EXCEPT !.pc = "exited"]

InitMain ==
  /\ collection = {}
  /\ issued = {}
  /\ inflight = EmptyBag
  /\ last = Idle
  /\ main = Main("start", "none", <<>>)

\* mongo.NewClient: mongo.Connect, fatal on error
connect ==
  /\ main.pc = "start"
  /\ \E outcome \in Outcomes :
       main' = IF outcome = "fail"
                 THEN Fatalf(main)
                 ELSE [main EXCEPT !.pc = "ping", !.client = "dialed"]
  /\ UNCHANGED <<collection, issued, inflight, last>>

\* mongo.NewClient: client.Ping, fatal on error, else the client is returned
ping ==
  /\ main.pc = "ping"
  /\ \E outcome \in Outcomes :
       main' = IF outcome = "fail"
                 THEN Fatalf(main)
                 ELSE [main EXCEPT !.pc = "created", !.client = "ready"]
  /\ UNCHANGED <<collection, issued, inflight, last>>

\* defer func() { client.Disconnect(nil) }(), then the repository, use case,
\* handler and router are built
deferDisconnect ==
  /\ main.pc = "created"
  /\ main' = [main EXCEPT !.pc = "wired",
                          !.deferred = <<"Disconnect">> \o @]
  /\ UNCHANGED <<collection, issued, inflight, last>>

\* http.ListenAndServe starts to serve
listenAndServe ==
  /\ main.pc = "wired"
  /\ main' = [main EXCEPT !.pc = "serving"]
  /\ UNCHANGED <<collection, issued, inflight, last>>

\* http.ListenAndServe returns, always with an error: log.Fatalf
serveFailed ==
  /\ main.pc \in {"wired", "serving"}
  /\ main' = Fatalf(main)
  /\ UNCHANGED <<collection, issued, inflight, last>>

NextMain ==
  \/ connect
  \/ ping
  \/ deferDisconnect
  \/ listenAndServe
  \/ serveFailed
  \/ createUser
  \/ listUsers
  \/ getUser
  \/ updateUserFetch
  \/ proceed
  \/ resume
  \/ deleteUser
  \/ yield

SpecMain == InitMain /\ [][NextMain]_vars

\* the store keeps _id unique, and only generated identifiers are stored
TypeOK ==
  /\ \A d \in collection : d.ID \in issued
  /\ \A d, e \in collection : d.ID = e.ID => d = e
  /\ issued \subseteq OidSpace

(***************************************************************************)
(* Vocabulary of the properties.                                           *)
(***************************************************************************)
\* the stored document an id resolves to, as a set of at most one document
Resolved(coll, id) ==
  {d \in coll : ObjectIDFromHex(id) = [err |-> FALSE, oid |-> d.ID]}

\* the id is malformed, or is a well-formed identifier never generated
NeverCreated(id) ==
  \/ ObjectIDFromHex(id).err
  \/ ObjectIDFromHex(id).oid \notin issued

\* the domain view of a stored document
AsUser(d) == [ID |-> Hex(d.ID), Name |-> d.Name, Email |-> d.Email]

C2_Original ==
  [][(/\ last'.op \in {"createUser", "updateUser"}
      /\ last'.whole /\ last'.decoded
      /\ ~ContainsAt(last'.email)
      /\ last'.op = "updateUser" => last'.email # <<>>)
     => /\ last'.err = ErrInvalidEmail
        /\ collection' = collection]_vars

\* C2 amended: CreateUser fails with InvalidEmail for every name; UpdateUser
\* with a non-empty email without '@' fails with InvalidEmail when its lookup
\* returns the record, with NotFound when the id does not resolve, and with
\* the store's error when the lookup fails; the store is left as it was.
C2_InvalidEmail ==
  [][(/\ last'.op \in {"createUser", "updateUser"}
      /\ last'.whole /\ last'.decoded
      /\ ~ContainsAt(last'.email)
      /\ last'.op = "updateUser" => last'.email # <<>>)
     => /\ collection' = collection
        /\ last'.user = NilUser
        /\ last'.op = "createUser" => last'.err = ErrInvalidEmail
        /\ last'.op = "updateUser" =>
             \/ /\ last'.err = ErrInvalidEmail
                /\ Resolved(collection, last'.id) # {}
             \/ /\ last'.err = ErrNotFound
                /\ Resolved(collection, last'.id) = {}
             \/ /\ last'.err = ErrStore
                /\ ReachesStore(last'.id)]_vars

C2_Witness ==
  /\ last.op = "updateUser"
  /\ last.err = ErrInvalidEmail
  /\ last.email = <<"j","x">>
  /\ Resolved(collection, last.id) # {}

\* C3 as stated: for every id that is malformed or was never assigned,
\* GetUser, UpdateUser (for every name and email) and DeleteUser fail with
\* NotFound and leave the store unchanged.
C3_Original ==
  [][(/\ last'.op \in {"getUser", "updateUser", "deleteUser"}
      /\ last'.whole /\ last'.decoded
      /\ NeverCreated(last'.id))
     => /\ last'.err = ErrNotFound
        /\ collection' = collection]_vars

\* C3 amended: for a malformed id the three operations fail with NotFound;
\* for a well-formed id never assigned they fail with NotFound unless the
\* call to the store fails, and then with the store's error; the store is
\* unchanged in every case.
C3_UnknownId ==
  [][(/\ last'.op \in {"getUser", "updateUser", "deleteUser"}
      /\ last'.whole /\ last'.decoded
      /\ NeverCreated(last'.id))
     => /\ collection' = collection
        /\ last'.user = NilUser
        /\ \/ last'.err = ErrNotFound
           \/ last'.err = ErrStore /\ ~ObjectIDFromHex(last'.id).err]_vars

C3_Witness ==
  /\ last.op = "updateUser"
  /\ last.id = NonHexId
  /\ last.email = <<"j","x">>
  /\ last.err = ErrNotFound
  /\ collection # {}

\* C4: every stored record's email contains '@'.
C4_StoredEmailHasAt == \A d \in collection : ContainsAt(d.Email)

C4_Witness ==
  /\ last.op = "updateUser"
  /\ last.user # NilUser
  /\ \E d \in collection :
       d.Email = <<"n","@","e">> /\ Hex(d.ID) = last.user[1].ID
  /\ \E d \in collection : d.Email = <<"j","@","x">>

\* the identifiers of the stored records
StoredIds(coll) == {d.ID : d \in coll}

\* the id was assigned by a create and its record has been deleted since
Deleted(coll, id) ==
  /\ ~ObjectIDFromHex(id).err
  /\ ObjectIDFromHex(id).oid \in issued
  /\ DocsWithID(coll, ObjectIDFromHex(id).oid) = {}

\* prior merged with the supplied fields: an empty field keeps the prior one
Merged(prior, name, email) ==
  [ID |-> prior.ID,
   Name |-> IF name # <<>> THEN name ELSE prior.Name,
   Email |-> IF email # <<>> THEN email ELSE prior.Email]

\* C5: an UpdateUser that runs from its lookup to its write with no other
\* request in between and succeeds stores and returns the merged record:
\* each of name and email is the supplied value if that is non-empty and the
\* prior stored value otherwise; every other record is left alone.
C5_MergedUpdate ==
  [][(/\ last.op = "fetch"
      /\ last'.op = "updateUser" /\ last'.whole /\ last'.err = Nil)
     => \E prior \in Resolved(collection, last'.id) :
          LET m == Merged(prior, last'.name, last'.email) IN
          /\ last'.user = <<AsUser(m)>>
          /\ collection' = (collection \ {prior}) \cup {m}]_vars

C5_Witness ==
  /\ last.op = "updateUser" /\ last.whole /\ last.err = Nil
  /\ last.name = <<>>
  /\ last.email = <<"n","@","e">>
  /\ last.user = <<[ID |-> Hex(Oid(1)), Name |-> <<"J">>,
                    Email |-> <<"n","@","e">>]>>
  /\ [ID |-> Oid(1), Name |-> <<"J">>, Email |-> <<"n","@","e">>]
       \in collection

\* C6 as stated: for every existing record UpdateUser(id, "", "") succeeds,
\* returns the record with its prior name and email and leaves the store
\* identical.
C6_Original ==
  [][(/\ last'.op = "updateUser" /\ last'.whole /\ last'.decoded
      /\ last'.name = <<>> /\ last'.email = <<>>
      /\ Resolved(collection, last'.id) # {})
     => /\ last'.err = Nil
        /\ \E prior \in Resolved(collection, last'.id) :
             last'.user = <<AsUser(prior)>>
        /\ collection' = collection]_vars

\* C6 amended: for every existing record, UpdateUser(id, "", "") that runs
\* with no other request between its lookup and its write succeeds unless a
\* call to the store fails, returns the record with its prior name and email
\* and leaves the store identical (never NotFound); when a call to the store
\* fails it returns the store's error, the store again identical.
C6_NoOpUpdate ==
  [][/\ (/\ last.op = "idle"
         /\ last'.op = "updateUser" /\ last'.whole /\ last'.decoded
         /\ last'.name = <<>> /\ last'.email = <<>>
         /\ Resolved(collection, last'.id) # {})
        => /\ last'.err = ErrStore
           /\ collection' = collection
     /\ (/\ last.op = "fetch" /\ last.name = <<>> /\ last.email = <<>>
         /\ last'.op = "updateUser")
        => /\ collection' = collection
           /\ \/ last'.err = ErrStore
              \/ /\ last'.err = Nil
                 /\ \E prior \in Resolved(collection, last.id) :
                      last'.user = <<AsUser(prior)>>]_vars

C6_Witness ==
  /\ last.op = "updateUser" /\ last.whole /\ last.err = Nil
  /\ last.name = <<>> /\ last.email = <<>>
  /\ last.id = ToUpper(Hex(Oid(1)))
  /\ last.user # NilUser
  /\ last.resp.status = StatusOK

\* C7 as stated: after DeleteUser(id) has succeeded, a second DeleteUser(id)
\* fails with NotFound and changes nothing.
C7_Original ==
  [][(last'.op = "deleteUser" /\ Deleted(collection, last'.id))
     => /\ last'.err = ErrNotFound
        /\ collection' = collection]_vars

\* C7 amended: after DeleteUser(id) has succeeded, a second DeleteUser(id)
\* fails, with NotFound or, when the call to the store fails, with the
\* store's error, and changes nothing; a deleted record stays deleted, so
\* delete succeeds at most once per created record.
C7_SecondDelete ==
  [][/\ (last'.op = "deleteUser" /\ Deleted(collection, last'.id))
        => /\ last'.err \in {ErrNotFound, ErrStore}
           /\ collection' = collection
     /\ (last'.op = "deleteUser" /\ last'.err = Nil)
        => /\ Resolved(collection, last'.id) # {}
           /\ Deleted(collection', last'.id)
     /\ \A oid \in issued :
          DocsWithID(collection, oid) = {} => DocsWithID(collection', oid) = {}
    ]_vars

C7_Witness ==
  /\ last.op = "deleteUser"
  /\ last.err = ErrNotFound
  /\ Deleted(collection, last.id)
  /\ collection # {}

\* C8: a successful ListUsers returns exactly the records currently stored:
\* one entry per stored id with that record's name and email, no duplicate
\* and no extra entry, in any order.
C8_ListIsStore ==
  (last.op = "listUsers" /\ last.err = Nil)
  => /\ Len(last.users) = Cardinality(collection)
     /\ {last.users[i] : i \in 1..Len(last.users)}
          = {AsUser(d) : d \in collection}

C8_Witness ==
  /\ last.op = "listUsers" /\ last.err = Nil
  /\ Len(last.users) = 2
  /\ last.users[1].ID = Hex(Oid(2))
  /\ last.users[2].Name # last.users[1].Name

\* C9: the status written by every handler for every outcome: undecodable
\* body 400, InvalidEmail 400, NotFound 404, any other error 500, created
\* 201 with the record, get/update/list 200 with the record(s), deleted 204
\* with an empty body.
C9_StatusMapping ==
  (last.op \in {"createUser", "listUsers", "getUser", "updateUser",
                "deleteUser"})
  => LET r == last.resp IN
     IF ~last.decoded
       THEN /\ last.op \in {"createUser", "updateUser"}
            /\ ~last.called
            /\ r.status = StatusBadRequest /\ r.json = "error"
     ELSE IF last.err = ErrInvalidEmail
       THEN r.status = StatusBadRequest /\ r.json = "error"
     ELSE IF last.err = ErrNotFound
       THEN r.status = StatusNotFound /\ r.json = "error"
     ELSE IF last.err # Nil
       THEN r.status = StatusInternalServerError /\ r.json = "error"
     ELSE IF last.op = "createUser"
       THEN /\ r.status = StatusCreated /\ r.json = "object"
            /\ last.user # NilUser /\ r.users = last.user
     ELSE IF last.op \in {"getUser", "updateUser"}
       THEN /\ r.status = StatusOK /\ r.json = "object"
            /\ last.user # NilUser /\ r.users = last.user
     ELSE IF last.op = "listUsers"
       THEN r.status = StatusOK /\ r.users = last.users
     ELSE r.status = StatusNoContent /\ r.json = "empty" /\ r.users = <<>>

C9_Witness ==
  /\ last.op = "updateUser"
  /\ last.err = ErrStore
  /\ last.resp.status = StatusInternalServerError
  /\ ~last.whole

StoreFailed(coll, coll2, event) ==
  /\ event.err = ErrStore
  /\ event.resp.status = StatusInternalServerError
  /\ coll2 = coll

Unresolved(coll) ==
  {w \in Ids : ~ObjectIDFromHex(w).err /\ Resolved(coll, w) = {}}

\* the response the handlers write for a request with id w in store coll, as
\* the request of the event would get it with w in the place of its id
ResponseFor(event, coll, w, outcome) ==
  IF event.op = "getUser"
    THEN LET r == GetUser(coll, w, outcome) IN getUserResponse(r.err, r.user)
  ELSE IF event.op = "deleteUser"
    THEN deleteUserResponse(DeleteUser(coll, w, outcome).err)
  ELSE IF ~event.decoded
    THEN updateUserResponse(FALSE, Nil, NilUser)
  ELSE LET r == UpdateUserFetch(coll, w, event.name, event.email, outcome)
       IN updateUserResponse(TRUE, r.err, r.user)

\* C11 as stated: a request (GET, PUT, DELETE) with a malformed id and the
\* same request with a well-formed id that resolves to no record, in the same
\* store state, get the same status, 404, and the same body, and neither
\* changes the store.
C11_Original ==
  [][(/\ last'.op \in {"getUser", "updateUser", "deleteUser"}
      /\ last'.whole /\ last'.decoded
      /\ ObjectIDFromHex(last'.id).err)
     => /\ last'.resp.status = StatusNotFound
        /\ collection' = collection
        /\ \A w \in Unresolved(collection), outcome \in Outcomes :
             /\ ResponseFor(last', collection, w, outcome) = last'.resp
             /\ last'.op = "deleteUser" =>
                  DeleteUser(collection, w, outcome).coll = collection]_vars

\* C11 amended: the two requests get the same status, 404, and the same body
\* unless the store call made for the well-formed id fails, which is answered
\* 500 (the malformed id never reaches the store); a PUT whose body cannot be
\* decoded is answered 400 for both; neither request changes the store.
C11_MalformedAsMissing ==
  [][(/\ last'.op \in {"getUser", "updateUser", "deleteUser"}
      /\ last'.whole
      /\ ObjectIDFromHex(last'.id).err)
     => /\ last'.resp.status =
             IF last'.decoded THEN StatusNotFound ELSE StatusBadRequest
        /\ collection' = collection
        /\ \A w \in Unresolved(collection) :
             /\ ResponseFor(last', collection, w, "ok") = last'.resp
             /\ last'.decoded =>
                  ResponseFor(last', collection, w, "fail").status
                    = StatusInternalServerError
             /\ \A outcome \in Outcomes :
                  last'.op = "deleteUser" =>
                    DeleteUser(collection, w, outcome).coll = collection]_vars

C11_Witness ==
  /\ last.op = "updateUser" /\ last.whole /\ last.decoded
  /\ last.id = ShortId
  /\ last.email = <<"j","x">>
  /\ last.resp.status = StatusNotFound
  /\ collection # {}
  /\ Hex(Oid(1)) \in Unresolved(collection)

\* the identifiers whose stored record differs between two stores
Changed(coll, coll2) ==
  {oid \in OidSpace : DocsWithID(coll, oid) # DocsWithID(coll2, oid)}

C13_Original ==
  [][/\ last'.op \in {"fetch", "updateUser"}
          => StoredIds(collection') = StoredIds(collection)
     /\ (/\ last'.op \in {"getUser", "updateUser"}
         /\ last'.whole /\ last'.decoded /\ last'.err = Nil)
        => /\ last'.user # NilUser
           /\ last'.user[1].ID = last'.id
     /\ StoredIds(collection') # StoredIds(collection)
          => \/ /\ last'.op = "createUser" /\ last'.err = Nil
                /\ \E oid \in OidSpace \ issued :
                     StoredIds(collection') = StoredIds(collection) \cup {oid}
             \/ /\ last'.op = "deleteUser" /\ last'.err = Nil
                /\ \E oid \in StoredIds(collection) :
                     StoredIds(collection') = StoredIds(collection) \ {oid}
    ]_vars

\* C13 amended: as stated, except that the id in the record returned by
\* UpdateUser and GetUser is the lower-case hexadecimal form of the
\* identifier it was looked up by: it denotes the same identifier and is
\* equal to the id of the request only when that was written in lower case.
C13_IdImmutable ==
  [][/\ last'.op \in {"fetch", "updateUser"}
          => StoredIds(collection') = StoredIds(collection)
     /\ (/\ last'.op \in {"getUser", "updateUser"}
         /\ last'.whole /\ last'.decoded /\ last'.err = Nil)
        => /\ last'.user # NilUser
           /\ ~ObjectIDFromHex(last'.id).err
           /\ last'.user[1].ID = Hex(ObjectIDFromHex(last'.id).oid)
           /\ ObjectIDFromHex(last'.id).oid \in StoredIds(collection)
     /\ StoredIds(collection') # StoredIds(collection)
          => \/ /\ last'.op = "createUser" /\ last'.err = Nil
                /\ \E oid \in OidSpace \ issued :
                     StoredIds(collection') = StoredIds(collection) \cup {oid}
             \/ /\ last'.op = "deleteUser" /\ last'.err = Nil
                /\ \E oid \in StoredIds(collection) :
                     StoredIds(collection') = StoredIds(collection) \ {oid}
    ]_vars

C13_Witness ==
  /\ last.op = "getUser" /\ last.err = Nil
  /\ last.id = ToUpper(Hex(Oid(1)))
  /\ last.user # NilUser
  /\ last.user[1].ID = Hex(Oid(1))
  /\ last.user[1].ID # last.id

\* the stored form of a domain user
AsDoc(u) ==
  [ID |-> ObjectIDFromHex(u.ID).oid, Name |-> u.Name, Email |-> u.Email]

\* C14: when UpdateUser requests for the same record run concurrently, the
\* Update of each is applied in full: right after the Update of a request
\* the stored name and email are exactly the pair that request wrote,
\* whatever the others in flight wrote or are about to write, so after all
\* of them the record holds the pair of the Update applied last, never a
\* mix; and no Update is rejected because of another update: it fails only
\* with the store's error, or with NotFound when the record is gone.
C14_LastWriteWins ==
  [][(last'.op = "updateUser" /\ inflight' # inflight)
     => \E u \in BagToSet(inflight) :
          /\ inflight' = inflight (-) SetToBag({u})
          /\ IF last'.err = Nil
               THEN /\ last'.user = <<u>>
                    /\ AsDoc(u).ID \in StoredIds(collection)
                    /\ collection' =
                         {d \in collection : d.ID # AsDoc(u).ID}
                           \cup {AsDoc(u)}
               ELSE /\ collection' = collection
                    /\ \/ last'.err = ErrStore
                       \/ /\ last'.err = ErrNotFound
                          /\ AsDoc(u).ID \notin StoredIds(collection)]_vars

C14_Witness ==
  /\ last.op = "updateUser" /\ last.whole /\ last.err = Nil
  /\ last.user # NilUser
  /\ AsDoc(last.user[1]) \in collection
  /\ \E u \in BagToSet(inflight) :
       /\ u.ID = last.user[1].ID
       /\ u.Name # last.user[1].Name
       /\ u.Email # last.user[1].Email

Ops(calls) == [i \in 1..Len(calls) |-> calls[i].op]

C18_NameAndEmailRequired ==
  [][(/\ last'.op = "createUser" /\ last'.decoded
      /\ (last'.name = <<>> \/ last'.email = <<>>))
     => /\ last'.resp.status = StatusBadRequest
        /\ collection' = collection]_vars

\* the lookup of the request signalled an unknown id, by the NotFound error
\* or by a nil user with a nil error
SignalledUnknown(event) ==
  /\ event.calls # <<>>
  /\ event.calls[1].op = "GetByID"
  /\ \/ event.calls[1].err = ErrNotFound
     \/ event.calls[1].err = Nil /\ event.calls[1].res = NilUser

\* C19: whichever way the repository signals an unknown id from GetByID, by
\* an error or by a nil user with a nil error, GET /users/{id} and
\* PUT /users/{id} answer 404 and PUT issues no Update.
C19_UnknownIs404 ==
  (last.op \in {"getUser", "updateUser"} /\ SignalledUnknown(last))
  => /\ last.resp.status = StatusNotFound
     /\ Len(last.calls) = 1

C21_LookupBeforeMutation ==
  [][(/\ last'.op \in {"updateUser", "deleteUser"}
      /\ last'.whole
      /\ last'.decoded)
     => /\ last'.calls # <<>>
        /\ last'.calls[1].op = "GetByID"
        /\ Resolved(collection, last'.id) = {}
             => \A i \in 1..Len(last'.calls) :
                  last'.calls[i].op \notin {"Update", "Delete"}]_vars

\* C22: concurrent UpdateUser requests on one record lose no update: every
\* Update that succeeds leaves the record as the request's name and email
\* applied to the record stored just before it, so that the final record is
\* the one the requests give when run one after the other in the order of
\* their writes; in particular a request with an empty name leaves the stored
\* name, and one with an empty email the stored email, as it found it at its
\* write, also when another request changed that field after its lookup.
C22_NoLostUpdate ==
  [][(/\ last'.op = "updateUser"
      /\ last'.err = Nil
      /\ last'.decoded)
     => \A d \in Resolved(collection, last'.id) :
          /\ last'.name = <<>>
               => \A e \in Resolved(collection', last'.id) : e.Name = d.Name
          /\ last'.email = <<>>
               => \A e \in Resolved(collection', last'.id) : e.Email = d.Email
          /\ Resolved(collection', last'.id)
               = {AsDoc(Merged(AsUser(d), last'.name, last'.email))}]_vars

\* the ids assigned by a create whose record has been deleted
Gone(coll) == issued \ StoredIds(coll)

\* the request of the event called Update for the record with identifier oid
WroteTo(event, oid) ==
  \E i \in 1..Len(event.calls) :
    /\ event.calls[i].op = "Update"
    /\ event.calls[i].arg.ID = Hex(oid)

\* C23 as stated: once DeleteUser(id) has succeeded the record never comes
\* back: no step stores it again, every later GetUser(id) fails with NotFound,
\* no list contains the id, and an UpdateUser that looked the record up before
\* the delete and writes after it fails with NotFound and stores nothing.
C23_Original ==
  [][\A oid \in Gone(collection) :
       /\ oid \notin StoredIds(collection')
       /\ (/\ last'.op = "getUser"
           /\ ObjectIDFromHex(last'.id) = [err |-> FALSE, oid |-> oid])
          => last'.err = ErrNotFound /\ last'.user = NilUser
       /\ last'.op = "listUsers"
          => \A i \in 1..Len(last'.users) : last'.users[i].ID # Hex(oid)
       /\ (last'.op = "updateUser" /\ WroteTo(last', oid))
          => last'.err = ErrNotFound /\ collection' = collection]_vars

\* C23 amended: the same, each request failing with NotFound unless its call
\* to the store fails, and then with the store's error: in either case the
\* deleted record is not returned, not listed and not stored again.
C23_DeletedStaysDeleted ==
  [][\A oid \in Gone(collection) :
       /\ oid \notin StoredIds(collection')
       /\ (/\ last'.op = "getUser"
           /\ ObjectIDFromHex(last'.id) = [err |-> FALSE, oid |-> oid])
          => /\ last'.err \in {ErrNotFound, ErrStore}
             /\ last'.user = NilUser
             /\ last'.resp.status
                  = IF last'.err = ErrNotFound
                      THEN StatusNotFound ELSE StatusInternalServerError
       /\ last'.op = "listUsers"
          => \A i \in 1..Len(last'.users) : last'.users[i].ID # Hex(oid)
       /\ (last'.op = "updateUser" /\ WroteTo(last', oid))
          => /\ last'.err \in {ErrNotFound, ErrStore}
             /\ last'.user = NilUser
             /\ collection' = collection]_vars

C23_Witness ==
  /\ last.op = "updateUser"
  /\ ~last.whole
  /\ last.err = ErrNotFound
  /\ \E oid \in Gone(collection) : WroteTo(last, oid)
  /\ collection # {}

\* the identifier the Update call of the event was made for
WrittenOid(event) ==
  ObjectIDFromHex(event.calls[Len(event.calls)].arg.ID).oid

\* C24: frame of each operation: GetUser, ListUsers and the lookup of
\* UpdateUser never change the store; a successful CreateUser adds exactly
\* one record and leaves every stored record as it was; a successful
\* UpdateUser changes at most the name and email of the record it was called
\* for; a successful DeleteUser removes the record with its id and no other.
C24_Frame ==
  [][/\ last'.op \in {"getUser", "listUsers", "fetch"}
          => collection' = collection
     /\ (last'.op = "createUser" /\ last'.decoded /\ last'.err = Nil)
          => /\ collection \subseteq collection'
             /\ Cardinality(collection' \ collection) = 1
             /\ StoredIds(collection' \ collection)
                  \cap StoredIds(collection) = {}
     /\ (last'.op = "updateUser" /\ last'.decoded /\ last'.err = Nil)
          => /\ StoredIds(collection') = StoredIds(collection)
             /\ Cardinality(collection') = Cardinality(collection)
             /\ \A d \in collection :
                  d.ID # WrittenOid(last') => d \in collection'
     /\ (last'.op = "deleteUser" /\ last'.err = Nil)
          => /\ collection'
                  = {d \in collection : d.ID # ObjectIDFromHex(last'.id).oid}
             /\ Cardinality(collection') = Cardinality(collection) - 1]_vars

C24_Witness ==
  /\ last.op = "deleteUser"
  /\ last.err = Nil
  /\ collection # {}
  /\ Resolved(collection, last.id) = {}

\* the records a ListUsers would return in this state, as a set
Listed(coll) == {AsUser(d) : d \in coll}

\* C25 as stated: a CreateUser whose name and email are those of a stored
\* record succeeds and adds a second record with another id; any two
\* successful creates return distinct ids and both records are listed.
C25_Original ==
  [][(/\ last'.op = "createUser"
      /\ last'.decoded
      /\ \E d \in collection :
           d.Name = last'.name /\ d.Email = last'.email)
     => /\ last'.err = Nil
        /\ last'.user # NilUser
        /\ \A d \in collection : AsUser(d).ID # last'.user[1].ID
        /\ Listed(collection') = Listed(collection) \cup {last'.user[1]}
        /\ Cardinality(collection') = Cardinality(collection) + 1]_vars

\* C25 amended: there is no uniqueness rule on name or email: a CreateUser
\* whose name and email are those of a stored record succeeds, unless the
\* store fails, and adds a second record with another id; a successful
\* create returns an id no earlier create returned and no stored record has,
\* and the new record and every record stored before are in the list.
C25_NoUniqueness ==
  [][(/\ last'.op = "createUser"
      /\ last'.decoded
      /\ ContainsAt(last'.email))
     => /\ last'.err \in {Nil, ErrStore}
        /\ last'.err = Nil
             => /\ last'.user # NilUser
                /\ ~ObjectIDFromHex(last'.user[1].ID).err
                /\ ObjectIDFromHex(last'.user[1].ID).oid \notin issued
                /\ \A d \in collection : AsUser(d).ID # last'.user[1].ID
                /\ Listed(collection')
                     = Listed(collection) \cup {last'.user[1]}
                /\ Cardinality(collection') = Cardinality(collection) + 1]_vars

C25_Witness ==
  /\ last.op = "createUser"
  /\ last.err = Nil
  /\ \E d, e \in collection :
       /\ d.ID # e.ID
       /\ d.Name = e.Name
       /\ d.Email = e.Email
       /\ AsUser(d) = last.user[1]

\* C26: decoding the body comes first in POST /users and PUT /users/{id}: a
\* request whose body cannot be decoded is answered 400 "Invalid request
\* body" with no call of the use case and none of the repository, whatever
\* its id and whatever is stored, and the store and the requests in flight
\* stay as they were.
C26_DecodeFirst ==
  [][(last'.op \in {"createUser", "updateUser"} /\ ~last'.decoded)
     => /\ last'.resp = writeError(StatusBadRequest, "Invalid request body")
        /\ ~last'.called
        /\ last'.calls = <<>>
        /\ last'.err = Nil
        /\ last'.user = NilUser
        /\ collection' = collection
        /\ issued' = issued
        /\ inflight' = inflight]_vars

C26_Witness ==
  /\ last.op = "updateUser"
  /\ ~last.decoded
  /\ last.resp.status = StatusBadRequest
  /\ Resolved(collection, last.id) # {}

\* C27: a successful GET /users answers 200 with a JSON array of the stored
\* records in every state of the store; for the empty collection the body
\* is the empty array.
C27_ListIsArray ==
  (last.op = "listUsers" /\ last.err = Nil)
  => /\ last.resp.status = StatusOK
     /\ last.resp.json = "array"
     /\ Len(last.resp.users) = Cardinality(collection)
     /\ {last.resp.users[i] : i \in 1..Len(last.resp.users)}
          = Listed(collection)

\* C28: List is all-or-nothing: when Find, the Decode of a document or the
\* cursor fails, after however many documents were appended, List returns
\* the error and no record at all, ListUsers passes both on and GET /users
\* answers 500 without a record; a list that is returned is never partial.
C28_ListAllOrNothing ==
  last.op = "listUsers"
  => /\ Len(last.calls) = 1
     /\ last.calls[1].op = "List"
     /\ last.err = last.calls[1].err
     /\ last.users = last.calls[1].res
     /\ last.err # Nil
          => /\ last.calls[1].res = <<>>
             /\ last.resp = writeError(StatusInternalServerError,
                                       "Failed to list users")
     /\ last.err = Nil
          => /\ Len(last.users) = Cardinality(collection)
             /\ last.resp.status = StatusOK

C28_Witness ==
  /\ last.op = "listUsers"
  /\ last.err = ErrStore
  /\ last.users = <<>>
  /\ last.resp.status = StatusInternalServerError
  /\ Cardinality(collection) = 2

\* C29: the MongoDB client is always disconnected when main ends: on every
\* path by which the process ends after the client was created, the return
\* of ListenAndServe with an error included, the deferred client.Disconnect
\* has run before the process exits.
C29_DisconnectedAtExit ==
  (main.pc = "exited" /\ main.client \in {"ready", "disconnected"})
  => /\ main.client = "disconnected"
     /\ main.deferred = <<>>
====
